---- MODULE Spec2Model ----
(***************************************************************************)
(* Model of backend/services/experiment_service.py (ExperimentService) and *)
(* of the durable record functions of backend/core/database.py.            *)
(*                                                                         *)
(* The service runs on one asyncio event loop.  A coroutine runs without   *)
(* interruption from one await that really suspends to the next, so every  *)
(* action below is one such uninterrupted stretch of code.  Callbacks that *)
(* the loop schedules itself (the first step of a new task, the delivery   *)
(* of a cancellation, the wake-up of a caller awaiting a finished task)    *)
(* run in FIFO order and are kept in the queue `ready`; wake-ups that      *)
(* depend on the outside world (child exit, timers, pipe data, requests)   *)
(* may happen at any moment.  The wall clock advances in steps of the      *)
(* polling interval or of the overall timeout; the sleeps of 2 and 5       *)
(* seconds are shorter than its resolution and end without an advance.     *)
(***************************************************************************)
EXTENDS Integers, Sequences, FiniteSets, TLC

\* ------------------------------------------------------------ bounds
\* The environment of a run is one of eight scenarios, fixed in the initial
\* state; each bounds the part of the environment it does not study.  The
\* first six are the runs of Spec; "registry" and "files" are the runs of
\* RegistrySpec and FilesSpec.
\*   "race"      start, stop and delete racing with up to MaxTasks tasks
\*   "clock"     the wall clock advances (timestamps, the overall timeout)
\*   "output"    the child writes output lines and best_solution.json
\*   "meta"      update_experiment is called
\*   "recancel"  several stop/delete calls cancel the same task
\*   "registry"  several jobs with different search methods; list is called
\*   "files"     get, list, results and the file path are read and update is
\*               called; the child writes best_solution.json
\*   "db"        the table holds a record at startup; database calls may fail
\*   "pair"      two jobs that run at the same time
\*   "store"     the table holds a record at startup; the process may restart
\*   "reloaded"  the lifetime of the service after the restart
MaxJobs     == 1   \* experiments ever created (uuid4 ids are never reused)
MaxCalls    == 1   \* stop/delete calls that ever suspend on a task
MaxTasks    == 3   \* supervised tasks ever created, scenario "race"
ClockTasks  == 2   \* the same, scenario "clock"
OutputTasks == 1   \* the same, scenario "output"
MetaTasks   == 2   \* the same, scenario "meta"
MaxTicks    == 2   \* advances of the wall clock, scenario "clock"
OutputTicks == 1   \* the same, scenario "output"
MaxLines    == 2   \* lines written by all children, scenario "output"
CancelCalls   == 2 \* suspending stop/delete calls, scenario "recancel"
SmallTasks    == 1 \* tasks, scenarios "recancel", "registry", "files", "db"
RegistryJobs  == 3 \* experiments ever created, scenario "registry"
StoredJobs    == 1 \* records in the table at startup, scenario "db"
RegistryCalls == 0 \* suspending stop/delete calls, scenario "registry"
MaxOffset     == 2 \* offsets given to list
MaxLimit      == 3 \* limits given to list
PairJobs      == 2 \* experiments ever created, scenario "pair"
PairTasks     == 2 \* supervised tasks ever created, scenario "pair"
PairLines     == 1 \* lines written by all children, scenario "pair"

\* ------------------------------------------------------------ program constants
max_runtime   == 7200
poll_interval == 30

Scenarios == {"race", "clock", "output", "meta", "recancel", "db"}

\* Python's None and a present value
None    == << >>
Some(v) == <<v>>

Terminal == {"completed", "failed", "stopped"}

\* ------------------------------------------------------------ output lines
\* A line is the sequence of its whitespace-separated words.
RewardLine    == <<"Best", "reward:", "4.2", "(delta">>
IterationLine == <<"Iteration", "7/20">>
CollisionLine == <<"COLLISION", "FOUND">>
PlainLine     == <<"ok">>
NoValueLine   == <<"Best", "reward:">>
BadFloatLine  == <<"Best", "reward:", "n/a">>
BadIntLine    == <<"Iteration", "x/20">>
LowIterLine   == <<"Iteration", "2/20">>
LowRewardLine == <<"Best", "reward:", "3.5">>
MixedLine     == <<"collision", "found", "Best", "reward:", "3.5">>
IterCollLine  == <<"Iteration", "7/20", "Collision", "found">>
ZeroIterLine  == <<"Iteration", "0/20">>

\* lines a child process writes in the model
ChildLines == {RewardLine, IterationLine, CollisionLine, ZeroIterLine}

\* a float() that accepts nothing
FloatNone(w) == None

\* float(word): the value in tenths, None for a ValueError
FloatOf(w) ==
    CASE w = "4.2" -> Some(42)
      [] w = "3.5" -> Some(35)
      [] OTHER     -> None

HasSlash(w) == w \in {"7/20", "2/20", "0/20", "x/20", "n/a"}

\* int(word.split("/")[0]): None for a ValueError
IntBeforeSlash(w) ==
    CASE w = "7/20" -> Some(7)
      [] w = "2/20" -> Some(2)
      [] w = "0/20" -> Some(0)
      [] OTHER      -> None

\* word.lower()
Lower(w) ==
    CASE w \in {"COLLISION", "Collision"} -> "collision"
      [] w \in {"FOUND", "Found"}         -> "found"
      [] w = "Best"                       -> "best"
      [] w = "Iteration"                  -> "iteration"
      [] OTHER                            -> w

\* positions i with line[i], line[i+1] = a, b
PairAt(line, a, b) ==
    {i \in 1..(Len(line) - 1) : line[i] = a /\ line[i + 1] = b}

Min(S) == CHOOSE x \in S : \A y \in S : x <= y

\* The values one line yields (lines 666-683): exc is TRUE when the code
\* raises ValueError or IndexError, which line 700 catches.
ParseLine(line) ==
    LET none == [exc |-> FALSE, best_reward |-> None,
                 collision_found |-> FALSE, current_iteration |-> 0]
        br   == PairAt(line, "Best", "reward:")
        its  == {i \in 1..(Len(line) - 1) :
                     line[i] = "Iteration" /\ HasSlash(line[i + 1])}
        low  == [i \in 1..Len(line) |-> Lower(line[i])]
    IN  IF br # {}
        THEN LET k    == Min(br) + 2
                 stop == IF \E j \in br : j >= k THEN Min({j \in br : j >= k})
                         ELSE Len(line) + 1
             IN  IF k >= stop THEN [none EXCEPT !.exc = TRUE]
                 ELSE IF FloatOf(line[k]) = None THEN [none EXCEPT !.exc = TRUE]
                 ELSE [none EXCEPT !.best_reward = FloatOf(line[k])]
        ELSE IF (\E i \in 1..Len(line) : line[i] = "Iteration")
                /\ (\E i \in 1..Len(line) : HasSlash(line[i]))
        THEN IF its = {} THEN none
             ELSE LET v == IntBeforeSlash(line[Min(its) + 1])
                  IN  IF v = None THEN [none EXCEPT !.exc = TRUE]
                      ELSE [none EXCEPT !.current_iteration = v[1]]
        ELSE IF PairAt(low, "collision", "found") # {}
        THEN [none EXCEPT !.collision_found = TRUE]
        ELSE none

\* An empty progress dict: no key is set.
EmptyProgress ==
    [current_iteration |-> None, best_reward |-> None, collision_found |-> None]

\* _parse_progress_info: the registry after one output line of job id.
parse_progress_info(es, id, line) ==
    LET p == ParseLine(line)
    IN  IF p.exc \/ id \notin DOMAIN es THEN es
        ELSE LET old == IF es[id].progress = None THEN EmptyProgress
                        ELSE es[id].progress[1]
                 new == [old EXCEPT
                           !.best_reward = IF p.best_reward # None
                                           THEN p.best_reward ELSE @,
                           !.collision_found = IF p.collision_found
                                               THEN Some(TRUE) ELSE @,
                           !.current_iteration = IF p.current_iteration > 0
                                                 THEN Some(p.current_iteration)
                                                 ELSE @]
             IN  [es EXCEPT ![id].progress = Some(new)]

\* ------------------------------------------------------------ state
VARIABLES
    experiment_status,   \* self.experiment_status: id -> status dict
    active_experiments,  \* self.active_experiments: id -> supervised task
    db,                  \* the experiments table: id -> record
    outdir,              \* existing output directories: id -> best_solution.json
    nextid,              \* number of ids handed out so far
    tasks,               \* every supervised task created so far, in creation order
    calls,               \* every stop/delete call that suspended on a task
    ready,               \* the event loop's FIFO queue of scheduled callbacks
    written,             \* lines written so far by all children
    now,                 \* the wall clock (seconds)
    scenario,            \* the scenario of this run (never changes)
    last                 \* outcome of the facade call made by the latest step

vars == <<experiment_status, active_experiments, db, outdir, nextid, tasks,
          calls, ready, written, now, scenario, last>>

\* the bounds of the scenario
TaskBound ==
    CASE scenario = "race"   -> MaxTasks
      [] scenario = "clock"  -> ClockTasks
      [] scenario = "output" -> OutputTasks
      [] scenario = "meta"   -> MetaTasks
      [] scenario = "pair"   -> PairTasks
      [] OTHER               -> SmallTasks
JobBound ==
    CASE scenario = "registry" -> RegistryJobs
      [] scenario = "pair"     -> PairJobs
      [] scenario \in {"db", "store", "reloaded"} -> StoredJobs + MaxJobs
      [] OTHER                 -> MaxJobs
CallBound ==
    CASE scenario = "recancel" -> CancelCalls
      [] scenario = "registry" -> RegistryCalls
      [] OTHER                 -> MaxCalls
TickBound ==
    CASE scenario = "clock"  -> MaxTicks
      [] scenario = "output" -> OutputTicks
      [] OTHER               -> 0
LineBound ==
    CASE scenario = "output" -> MaxLines
      [] scenario = "pair"   -> PairLines
      [] OTHER               -> 0

\* every task, job id and suspended call there can be
TaskIds == 1..TaskBound
Ids     == 1..JobBound
CallIds == 1..CallBound

\* whether a database call succeeds: TRUE except in scenario "db", where it
\* may also raise
DbOutcomes == IF scenario = "db" THEN BOOLEAN ELSE {TRUE}

Channels == {"stdout", "stderr"}

\* messages of the exceptions the supervised task turns into error_message
MsgNoScript    == "Simulation script not found"
MsgTimeout     == "Experiment timed out after 7200 seconds"
MsgReturnCode  == "Experiment subprocess failed with return code"
MsgUnbound     == "local variable 'return_code' referenced before assignment"
MsgDictChanged == "dictionary changed size during iteration"
MsgNoneType    == "'NoneType' object does not support item assignment"
MsgKeyError    == "KeyError"

NoCall == [op |-> "none", id |-> 0, res |-> "none"]

\* f without key k, and f with key k bound to v
Drop(f, k)   == [x \in DOMAIN f \ {k} |-> f[x]]
Put(f, k, v) == [x \in DOMAIN f \cup {k} |-> IF x = k THEN v ELSE f[x]]

\* ------------------------------------------------------------ database.py
\* save_experiment_record: a new row with the column defaults.
save_experiment_record(d, id, t, m) ==
    Put(d, id, [status |-> "created", created_at |-> Some(t),
                search_method |-> m,
                started_at |-> None, completed_at |-> None,
                best_reward |-> None, collision_found |-> FALSE,
                error_message |-> None])

\* the loop `for key, value in kwargs.items(): setattr(record, key, value)`
RECURSIVE SetAttrs(_, _, _)
SetAttrs(rec, kw, i) ==
    IF i > Len(kw) THEN rec
    ELSE LET key == kw[i][1]
             val == kw[i][2]
         IN  IF key = "error_message"
             THEN SetAttrs([rec EXCEPT !.error_message = val], kw, i + 1)
             ELSE IF key = "best_reward"
             THEN SetAttrs([rec EXCEPT !.best_reward = val], kw, i + 1)
             ELSE IF key = "collision_found"
             THEN SetAttrs([rec EXCEPT !.collision_found = val[1]], kw, i + 1)
             ELSE SetAttrs(rec, kw, i + 1)

\* update_experiment_status of database.py
update_experiment_status(d, id, status, kw, t) ==
    IF id \notin DOMAIN d THEN d
    ELSE LET r0 == d[id]
             r1 == [r0 EXCEPT
                      !.status = status,
                      !.started_at =
                          IF status = "running" /\ r0.started_at = None
                          THEN Some(t) ELSE @,
                      !.completed_at =
                          IF status # "running" /\ status \in Terminal
                             /\ r0.completed_at = None
                          THEN Some(t) ELSE @]
         IN  [d EXCEPT ![id] = SetAttrs(r1, kw, 1)]

\* ------------------------------------------------------------ _update_experiment_status
\* The loop of lines 730-742 over kwargs.items().  Line 738 adds a key to
\* kwargs while the loop iterates over it, so the iterator raises
\* RuntimeError when it is asked for the item after "final_reward".
RECURSIVE KwLoop(_, _, _)
KwLoop(sd, kw, i) ==
    IF i > Len(kw) THEN [sd |-> sd, exc |-> None]
    ELSE LET key == kw[i][1]
             val == kw[i][2]
         IN  IF key = "error_message"
             THEN KwLoop([sd EXCEPT !.error_message = val], kw, i + 1)
             ELSE IF key = "final_reward"
             THEN IF sd.progress = None
                  THEN [sd |-> sd, exc |-> Some(MsgNoneType)]
                  ELSE [sd  |-> [sd EXCEPT !.progress[1].best_reward = val],
                        exc |-> Some(MsgDictChanged)]
             ELSE IF key = "collision_found"
             THEN IF sd.progress = None
                  THEN [sd |-> sd, exc |-> Some(MsgNoneType)]
                  ELSE KwLoop([sd EXCEPT !.progress[1].collision_found = val],
                              kw, i + 1)
             ELSE KwLoop(sd, kw, i + 1)

\* lines 745-750: the keyword arguments handed to the database
DbKwargs(kw) ==
    [i \in 1..Len(kw) |->
        IF kw[i][1] = "final_reward" THEN <<"best_reward", kw[i][2]>> ELSE kw[i]]

\* lines 723-727: the timestamp a transition writes
StampStatus(sd, status, t) ==
    [sd EXCEPT !.status = status,
               !.started_at = IF status = "running" THEN Some(t) ELSE @,
               !.completed_at = IF status \in Terminal THEN Some(t) ELSE @]

\* a handler that lets the failure of the database call through
DbRaised(exc, dbok) == IF dbok THEN exc ELSE Some("database")

\* lines 752-756: the failure of the database call is logged and not raised,
\* so what _update_experiment_status raises is what its loop raised
DbCaught(exc, dbok) == exc

\* _update_experiment_status: the registry and the table afterwards, and the
\* message of the exception it raises (None when it returns).  dbok tells
\* whether the database call succeeds; its failure is caught on line 755.
\* The underscore-free name _update_experiment_status is taken by the
\* database function above.
_update_experiment_status(es, d, id, status, kw, t, dbok) ==
    IF id \notin DOMAIN es THEN [es |-> es, db |-> d, exc |-> None]
    ELSE LET r == KwLoop(StampStatus(es[id], status, t), kw, 1)
         IN  [es  |-> [es EXCEPT ![id] = r.sd],
              db  |-> IF r.exc = None /\ dbok
                      THEN update_experiment_status(d, id, status, DbKwargs(kw), t)
                      ELSE d,
              exc |-> DbCaught(r.exc, dbok)]

\* datetime.isoformat(): a string, which is no datetime; the string of the
\* time t is written -1 - t
isoformat(t) == IF t = None THEN None ELSE Some(-1 - t[1])

\* a load that forgets the status of the record
LoadedAsCreated(rec) ==
    [status |-> "created",
     created_at |-> isoformat(rec.created_at),
     started_at |-> isoformat(rec.started_at),
     completed_at |-> isoformat(rec.completed_at),
     error_message |-> rec.error_message,
     progress |-> None,
     notes |-> None, tags |-> None, search_method |-> rec.search_method]

\* the status dict that lines 64-92 build of a record
LoadedStatus(rec) ==
    [status |-> rec.status,
     created_at |-> isoformat(rec.created_at),
     started_at |-> isoformat(rec.started_at),
     completed_at |-> isoformat(rec.completed_at),
     error_message |-> rec.error_message,
     progress |-> IF rec.best_reward # None \/ rec.collision_found
                  THEN Some([current_iteration |-> Some(0),
                             best_reward |-> rec.best_reward,
                             collision_found |-> Some(rec.collision_found)])
                  ELSE None,
     notes |-> None, tags |-> None, search_method |-> rec.search_method]

\* _load_experiments_from_database (lines 48-100): the registry after
\* __init__; a failure of list_experiment_records is caught on line 98 and
\* leaves the registry empty
_load_experiments_from_database(d, dbok) ==
    IF dbok THEN [id \in DOMAIN d |-> LoadedStatus(d[id])] ELSE << >>

\* the records an earlier lifetime of the service may have left in the table
StoredRecords ==
    {[status |-> "completed", created_at |-> Some(0), search_method |-> "random",
      started_at |-> Some(0), completed_at |-> Some(0),
      best_reward |-> Some(42), collision_found |-> FALSE,
      error_message |-> None],
     [status |-> "created", created_at |-> Some(0), search_method |-> "random",
      started_at |-> None, completed_at |-> None,
      best_reward |-> None, collision_found |-> FALSE,
      error_message |-> None]}

\* the tables the service may find at startup
StoredTables ==
    {<< >>} \cup {[i \in 1..n |-> r] : n \in 1..StoredJobs, r \in StoredRecords}

\* ------------------------------------------------------------ tasks and calls
\* A supervised task (_run_experiment_task) and the child process it owns.
\*   pc          where the coroutine is suspended
\*   cancelreq   task.cancel() was called and CancelledError is not yet thrown
\*   child       the operating-system process: "none", "alive" or "dead"
\*   returncode  process.returncode
\*   return_code the local variable of line 543 (None while unbound)
\*   start_time  the local variable of line 524
\*   poll_start  when the pending wait_for of line 543 was begun
\*   rd          the two _read_stream tasks: "none", "run" or "done"
\*   pipe        lines written by the child and not yet read
\*   attempts    how many transitions to a terminal status (completed, failed,
\*               stopped) were attempted for this run, by the task itself or
\*               by the stop call that awaited it
NewTask(id) ==
    [job |-> id, pc |-> "new", cancelreq |-> FALSE, child |-> "none",
     attempts |-> 0,
     returncode |-> None, return_code |-> None, start_time |-> 0,
     poll_start |-> 0,
     rd |-> [ch \in Channels |-> "none"], pipe |-> [ch \in Channels |-> << >>]]

\* what is left of a task object once its coroutine has ended
Ended(tk) ==
    [tk EXCEPT !.pc = "done", !.cancelreq = FALSE, !.returncode = None,
               !.return_code = None, !.start_time = 0, !.poll_start = 0]

\* a finally block that cleans nothing up
FinallyNoop(active, id) == active

\* lines 637-640: the finally block
Finally(active, id) == IF id \in DOMAIN active THEN Drop(active, id) ELSE active

\* the callers suspended in `await task` on task t, in the order they began
\* to wait; a finished task schedules their wake-ups in that order
Waiters(t) ==
    LET idx == [c \in 1..Len(calls) |-> c]
        w   == SelectSeq(idx, LAMBDA c : calls[c].task = t /\ calls[c].st = "waiting")
    IN  [i \in 1..Len(w) |-> <<"call", w[i]>>]

\* the queue after the running callback was taken from its head
Popped == Tail(ready)

\* a handler that records nothing
FailSilently(es, d, id, msg, dbok) == [es |-> es, db |-> d, exc |-> None]

\* lines 623-636 when no child has to be terminated: the failed transition
FailNow(es, d, id, msg, dbok) ==
    _update_experiment_status(es, d, id, "failed",
                              << <<"error_message", Some(msg)>> >>, now, dbok)

\* the task called _update_experiment_status with a terminal status n times
Attempted(tk, n) == [tk EXCEPT !.attempts = @ + n]

\* the outcome r of the last of n calls of _update_experiment_status
Counted(r, n) == [es |-> r.es, db |-> r.db, exc |-> r.exc, n |-> n]

\* lines 590-613 and the handler of line 623 for what they raise: the
\* registry and the table once the child has exited and both readers ended,
\* and the number of terminal transitions that were attempted
Finish(tk, es, d, dir, dbok) ==
    LET id == tk.job
    IN  IF tk.return_code = None
        THEN Counted(FailNow(es, d, id, MsgUnbound, dbok), 1)
        ELSE IF tk.return_code = Some(0)
        THEN LET art == IF id \in DOMAIN dir THEN dir[id] ELSE None
                 best_reward == IF art # None THEN art[1].best_reward ELSE None
                 collision_found ==
                     IF art # None THEN art[1].collision_found ELSE FALSE
                 r == _update_experiment_status(es, d, id, "completed",
                          << <<"final_reward", best_reward>>,
                             <<"collision_found", Some(collision_found)>> >>,
                          now, dbok)
             IN  IF r.exc = None THEN Counted(r, 1)
                 ELSE Counted(FailNow(r.es, r.db, id, r.exc[1], dbok), 2)
        ELSE Counted(FailNow(es, d, id, MsgReturnCode, dbok), 1)

\* ------------------------------------------------------------ initial state
\* __init__ (lines 42-46): the table is empty except in scenarios "db" and "store"; the
\* output directories of the stored jobs exist
InitIn(S) ==
    /\ scenario \in S
    /\ db \in (IF scenario \in {"db", "store"} THEN StoredTables ELSE {<< >>})
    /\ \E dbok \in DbOutcomes :
          experiment_status = _load_experiments_from_database(db, dbok)
    /\ active_experiments = << >>
    /\ outdir = [id \in DOMAIN db |-> None]
    /\ nextid = Cardinality(DOMAIN db)
    /\ tasks = << >>
    /\ calls = << >>
    /\ ready = << >>
    /\ written = 0
    /\ now = 0
    /\ last = NoCall

Init == InitIn(Scenarios)

\* ------------------------------------------------------------ facade
SearchMethods == IF scenario = "registry" THEN {"random", "pso"} ELSE {"random"}

\* create_experiment
Create ==
    /\ nextid < JobBound
    /\ \E dbok \in DbOutcomes, m \in SearchMethods :
         LET id == nextid + 1
         IN  /\ nextid' = id
             /\ outdir' = Put(outdir, id, None)
             /\ db' = IF dbok THEN save_experiment_record(db, id, now, m) ELSE db
             /\ experiment_status' =
                    Put(experiment_status, id,
                        [status |-> "created", created_at |-> Some(now),
                         started_at |-> None, completed_at |-> None,
                         error_message |-> None, progress |-> None,
                         notes |-> None, tags |-> None, search_method |-> m])
             /\ last' = [op |-> "create", id |-> id, res |-> "ok"]
    /\ UNCHANGED <<active_experiments, tasks, calls, ready, written, now, scenario>>

\* the checks of start without the one of lines 169-170
StartCheckNoActive(id) ==
    IF id \notin DOMAIN experiment_status THEN "NotFound" ELSE "ok"

\* the outcome of the checks of lines 166-170
StartCheck(id) ==
    IF id \notin DOMAIN experiment_status THEN "NotFound"
    ELSE IF id \in DOMAIN active_experiments THEN "AlreadyRunning"
    ELSE "ok"

\* start_experiment
Start(id) ==
    LET res == StartCheck(id)
    IN  /\ last' = [op |-> "start", id |-> id, res |-> res]
        /\ IF res # "ok"
           THEN UNCHANGED <<experiment_status, active_experiments, db, tasks, ready>>
           ELSE /\ Len(tasks) < TaskBound
                /\ \E dbok \in DbOutcomes :
                     LET r == _update_experiment_status(experiment_status, db, id,
                                                        "running", << >>, now, dbok)
                     IN  /\ experiment_status' = r.es
                         /\ db' = r.db
                /\ tasks' = Append(tasks, NewTask(id))
                /\ active_experiments' = Put(active_experiments, id, Len(tasks) + 1)
                /\ ready' = Append(ready, <<"task", Len(tasks) + 1>>)
        /\ UNCHANGED <<outdir, nextid, calls, written, now, scenario>>

\* task.cancel() on task t (line 193): no effect on a finished task; a task
\* that never ran is cancelled at its first step; a suspended task gets the
\* CancelledError delivered by a callback of the loop
Cancelled(t) ==
    IF tasks[t].pc = "done" \/ tasks[t].cancelreq THEN tasks
    ELSE [tasks EXCEPT ![t].cancelreq = TRUE]

CancelQueue(t, q) ==
    IF tasks[t].pc \in {"done", "new"} \/ tasks[t].cancelreq THEN q
    ELSE Append(q, <<"cancel", t>>)

\* a stop that empties the active-task map
StopTailClearsAll(es, d, active, id, dbok) ==
    IF id \notin DOMAIN active
    THEN [es |-> es, db |-> d, active |-> active, exc |-> TRUE]
    ELSE LET r == _update_experiment_status(es, d, id, "stopped", << >>, now, dbok)
         IN  [es |-> r.es, db |-> r.db, active |-> << >>, exc |-> FALSE]

\* lines 200-204 of stop_experiment, after `await task`: exc is TRUE when
\* line 201 raises KeyError
StopTail(es, d, active, id, dbok) ==
    IF id \notin DOMAIN active
    THEN [es |-> es, db |-> d, active |-> active, exc |-> TRUE]
    ELSE LET r == _update_experiment_status(es, d, id, "stopped", << >>, now, dbok)
         IN  [es |-> r.es, db |-> r.db, active |-> Drop(active, id), exc |-> FALSE]

\* lines 397-408 of delete_experiment: exc is TRUE when line 398 raises KeyError
DeleteTail(es, dir, id) ==
    IF id \notin DOMAIN es
    THEN [es |-> es, outdir |-> dir, exc |-> TRUE]
    ELSE [es |-> Drop(es, id),
          outdir |-> IF id \in DOMAIN dir THEN Drop(dir, id) ELSE dir,
          exc |-> FALSE]

\* stop_experiment up to `await task`, and to its end when the task is
\* already finished
Stop(id) ==
    /\ IF id \notin DOMAIN active_experiments
       THEN /\ last' = [op |-> "stop", id |-> id, res |-> "NotRunning"]
            /\ UNCHANGED <<experiment_status, active_experiments, db, tasks,
                           calls, ready>>
       ELSE LET t == active_experiments[id]
            IN  IF tasks[t].pc = "done"
                THEN \E dbok \in DbOutcomes :
                       LET r == StopTail(experiment_status, db,
                                         active_experiments, id, dbok)
                       IN  /\ experiment_status' = r.es
                           /\ db' = r.db
                           /\ active_experiments' = r.active
                           /\ last' = [op |-> "stop", id |-> id, res |-> "ok"]
                           /\ tasks' = [tasks EXCEPT ![t] = Attempted(@, 1)]
                           /\ UNCHANGED <<calls, ready>>
                ELSE /\ Len(calls) < CallBound
                     /\ tasks' = Cancelled(t)
                     /\ ready' = CancelQueue(t, ready)
                     /\ calls' = Append(calls, [kind |-> "stop", job |-> id,
                                                task |-> t, st |-> "waiting"])
                     /\ last' = [op |-> "stop", id |-> id, res |-> "suspended"]
                     /\ UNCHANGED <<experiment_status, active_experiments, db>>
    /\ UNCHANGED <<outdir, nextid, written, now, scenario>>

\* delete_experiment up to the `await task` of the stop it calls, and to its
\* end when it does not suspend
Delete(id) ==
    /\ IF id \notin DOMAIN experiment_status
       THEN /\ last' = [op |-> "delete", id |-> id, res |-> "False"]
            /\ UNCHANGED <<experiment_status, active_experiments, db, outdir,
                           tasks, calls, ready>>
       ELSE IF id \in DOMAIN active_experiments
               /\ tasks[active_experiments[id]].pc # "done"
       THEN LET t == active_experiments[id]
            IN  /\ Len(calls) < CallBound
                /\ tasks' = Cancelled(t)
                /\ ready' = CancelQueue(t, ready)
                /\ calls' = Append(calls, [kind |-> "delete", job |-> id,
                                           task |-> t, st |-> "waiting"])
                /\ last' = [op |-> "delete", id |-> id, res |-> "suspended"]
                /\ UNCHANGED <<experiment_status, active_experiments, db, outdir>>
       ELSE \E dbok \in DbOutcomes :
              LET s == IF id \in DOMAIN active_experiments
                       THEN StopTail(experiment_status, db, active_experiments,
                                     id, dbok)
                       ELSE [es |-> experiment_status, db |-> db,
                             active |-> active_experiments, exc |-> FALSE]
                  r == DeleteTail(s.es, outdir, id)
              IN  /\ experiment_status' = r.es
                  /\ outdir' = r.outdir
                  /\ db' = s.db
                  /\ active_experiments' = s.active
                  /\ last' = [op |-> "delete", id |-> id, res |-> "True"]
                  /\ tasks' = IF id \in DOMAIN active_experiments
                              THEN [tasks EXCEPT ![active_experiments[id]] =
                                                    Attempted(@, 1)]
                              ELSE tasks
                  /\ UNCHANGED <<calls, ready>>
    /\ UNCHANGED <<nextid, written, now, scenario>>

\* a stop or delete call resumes after `await task` (lines 197-206, 397-408)
Wake(c) ==
    /\ ready # << >>
    /\ Head(ready) = <<"call", c>>
    /\ ready' = Popped
    /\ \E dbok \in DbOutcomes :
         LET id == calls[c].job
             s  == StopTail(experiment_status, db, active_experiments, id, dbok)
             r  == IF calls[c].kind = "delete" /\ ~s.exc
                   THEN DeleteTail(s.es, outdir, id)
                   ELSE [es |-> s.es, outdir |-> outdir, exc |-> s.exc]
         IN  /\ experiment_status' = r.es
             /\ outdir' = r.outdir
             /\ db' = s.db
             /\ active_experiments' = s.active
             /\ calls' = [calls EXCEPT ![c].st = IF r.exc THEN "raised"
                                                 ELSE "returned"]
             /\ last' = [op |-> calls[c].kind, id |-> id,
                         res |-> IF r.exc THEN "KeyError"
                                 ELSE IF calls[c].kind = "delete" THEN "True"
                                 ELSE "ok"]
             /\ tasks' = IF s.exc THEN tasks
                         ELSE [tasks EXCEPT ![calls[c].task] = Attempted(@, 1)]
    /\ UNCHANGED <<nextid, written, now, scenario>>

\* get_experiment_results: None for an unknown id, else the final status and
\* best_solution_data.get("best_reward") of the file in the output directory
get_experiment_results(es, dir, id) ==
    IF id \notin DOMAIN es THEN None
    ELSE Some([final_status |-> es[id].status,
               best_reward  |-> IF id \in DOMAIN dir /\ dir[id] # None
                                THEN dir[id][1].best_reward ELSE None])

Notes == {"n"}
Tags  == {"t"}

\* an update that also puts the job back to created
UpdateResetsStatus(es, id, notes, tags) ==
    [es EXCEPT ![id].notes = notes, ![id].tags = tags, ![id].status = "created"]

\* lines 373-376 of update_experiment: notes and tags are Some(value) when
\* given
UpdateFields(es, id, notes, tags) ==
    [es EXCEPT ![id].notes = IF notes # None THEN notes ELSE @,
               ![id].tags  = IF tags # None THEN tags ELSE @]

\* update_experiment
Update(id, notes, tags) ==
    /\ scenario \in {"meta", "files", "pair"}
    /\ IF id \notin DOMAIN experiment_status
       THEN /\ last' = [op |-> "update", id |-> id, res |-> "None"]
            /\ UNCHANGED experiment_status
       ELSE /\ experiment_status' =
                  UpdateFields(experiment_status, id, notes, tags)
            /\ last' = [op |-> "update", id |-> id, res |-> "ok"]
    /\ UNCHANGED <<active_experiments, db, outdir, nextid, tasks, calls, ready,
                   written, now, scenario>>

\* get_experiment (lines 208-222)
get_experiment(es, id) == IF id \notin DOMAIN es THEN None ELSE Some(es[id])

\* ------------------------------------------------------------ reads
\* the keys of the registry in insertion order: a job id is never inserted
\* twice and ids are handed out in increasing order, so it is the order of
\* the ids
RECURSIVE InsertionOrder(_)
InsertionOrder(S) ==
    IF S = {} THEN << >>
    ELSE LET m == CHOOSE x \in S : \A y \in S : x <= y
         IN  <<m>> \o InsertionOrder(S \ {m})

\* the summary that list_experiments builds of one job (lines 288-299)
ListItem(es, id) ==
    [id |-> id, status |-> es[id].status, search_method |-> es[id].search_method]

\* the loop of lines 247-299 over the ids that are left: a filter that is
\* None or empty lets every job pass (lines 253-256)
RECURSIVE ListLoop(_, _, _, _, _)
ListLoop(es, order, status_filter, search_method, experiments) ==
    IF order = << >> THEN experiments
    ELSE LET id == Head(order)
             skip == \/ /\ status_filter # None
                           /\ status_filter[1] # ""
                           /\ es[id].status # status_filter[1]
                     \/ /\ search_method # None
                           /\ search_method[1] # ""
                           /\ es[id].search_method # search_method[1]
         IN  ListLoop(es, Tail(order), status_filter, search_method,
                      IF skip THEN experiments
                      ELSE Append(experiments, ListItem(es, id)))

\* a pagination that forgets the offset
SliceFromStart(s, start_idx, end_idx) ==
    SubSeq(s, 1, Min({end_idx - start_idx, Len(s)}))

\* experiments[start_idx:end_idx] for indices that are not negative
Slice(s, start_idx, end_idx) == SubSeq(s, start_idx + 1, Min({end_idx, Len(s)}))

\* list_experiments (lines 224-305)
list_experiments(es, limit, offset, status_filter, search_method) ==
    Slice(ListLoop(es, InsertionOrder(DOMAIN es), status_filter, search_method, << >>),
          offset, offset + limit)

\* the operations that only read
ReadOps == {"get", "list", "results", "filePath"}

\* the reads are tried in the scenarios "registry" and "files", one at a time
\* between the other operations (a read leaves nothing behind that a second
\* read could see)
ReadsEnabled == scenario \in {"registry", "files"} /\ last.op \notin ReadOps

\* the arguments of list that are tried
StatusFilters == {None, Some("created"), Some("running"), Some("failed")}
MethodFilters == {None} \cup {Some(m) : m \in SearchMethods}
Offsets == 0..MaxOffset
Limits  == 0..MaxLimit

\* get(id)
Get(id) ==
    /\ ReadsEnabled
    /\ last' = [op |-> "get", id |-> id, res |-> get_experiment(experiment_status, id)]
    /\ UNCHANGED <<experiment_status, active_experiments, db, outdir, nextid,
                   tasks, calls, ready, written, now, scenario>>

\* list(status_filter, search_method, offset, limit)
List(limit, offset, status_filter, search_method) ==
    /\ ReadsEnabled
    /\ last' = [op |-> "list", id |-> 0,
                res |-> list_experiments(experiment_status, limit, offset,
                                         status_filter, search_method)]
    /\ UNCHANGED <<experiment_status, active_experiments, db, outdir, nextid,
                   tasks, calls, ready, written, now, scenario>>

\* results(id)
Results(id) ==
    /\ ReadsEnabled
    /\ last' = [op |-> "results", id |-> id,
                res |-> get_experiment_results(experiment_status, outdir, id)]
    /\ UNCHANGED <<experiment_status, active_experiments, db, outdir, nextid,
                   tasks, calls, ready, written, now, scenario>>

\* ------------------------------------------------------------ files
\* A path is the sequence of its components; "/" as first component of a
\* filename makes it absolute.  The output directory of job id is
\* settings.output_dir / "experiment_<id>" (line 119).
JobDir == <<"experiment_1", "experiment_2", "experiment_3">>

OutputDir(id) == <<"output", JobDir[id]>>

\* the directories and the files that exist: an output directory from create
\* to delete, best_solution.json once the child has written it, and
\* whatever exists outside the output directories
Directories(dir) == {<< >>, <<"output">>} \cup {OutputDir(i) : i \in DOMAIN dir}

Files(dir, outside) ==
    {Append(OutputDir(i), "best_solution.json") :
        i \in {j \in DOMAIN dir : dir[j] # None}} \cup outside

\* one component further from path cur
Step(cur, c) ==
    IF c = "/" THEN << >>
    ELSE IF c = "." THEN cur
    ELSE IF c = ".." THEN (IF cur = << >> THEN cur ELSE SubSeq(cur, 1, Len(cur) - 1))
    ELSE Append(cur, c)

\* Path.resolve(): the absolute path without "." and ".." components
RECURSIVE Walk(_, _)
Walk(cur, rest) ==
    IF rest = << >> THEN cur ELSE Walk(Step(cur, Head(rest)), Tail(rest))

Resolve(p) == Walk(<< >>, p)

\* Path.exists(): the lookup the operating system does, which passes only
\* through directories that exist
RECURSIVE Lookup(_, _, _, _)
Lookup(cur, rest, dirs, files) ==
    IF rest = << >> THEN cur \in dirs \cup files
    ELSE cur \in dirs /\ Lookup(Step(cur, Head(rest)), Tail(rest), dirs, files)

Exists(p, dirs, files) == Lookup(<< >>, p, dirs, files)

\* output_dir / filename (line 430): an absolute filename replaces the left side
Join(a, b) == IF b # << >> /\ Head(b) = "/" THEN b ELSE a \o b

\* a check of containment that lets every path through
RelativeToAny(p, base) == TRUE

\* p.relative_to(base) does not raise ValueError (line 434)
RelativeTo(p, base) ==
    Len(base) <= Len(p) /\ SubSeq(p, 1, Len(base)) = base

\* get_experiment_file_path (lines 410-438)
get_experiment_file_path(es, dir, id, filename, outside) ==
    IF get_experiment(es, id) = None THEN None
    ELSE LET output_dir == OutputDir(id)
             file_path  == Join(output_dir, filename)
         IN  IF RelativeTo(Resolve(file_path), Resolve(output_dir))
             THEN IF Exists(file_path, Directories(dir), Files(dir, outside))
                  THEN Some(file_path) ELSE None
             ELSE None

\* the filenames asked for, and what may exist outside the output directories
FileNames ==
    {<<"best_solution.json">>, <<"..", "secret">>, <<"missing">>, <<".">>,
     <<"sub", "..", "best_solution.json">>,
     <<"..", "experiment_1", "best_solution.json">>,
     <<"/", "output", "secret">>, <<"..", "..", "output", "secret">>}

Outside == {{}, {<<"output", "secret">>}}

\* filePath(id, filename)
FilePath(id, filename, outside) ==
    /\ ReadsEnabled
    /\ last' = [op |-> "filePath", id |-> id,
                res |-> get_experiment_file_path(experiment_status, outdir, id,
                                                 filename, outside),
                arg |-> <<filename, outside>>]
    /\ UNCHANGED <<experiment_status, active_experiments, db, outdir, nextid,
                   tasks, calls, ready, written, now, scenario>>

\* ------------------------------------------------------------ supervised task
\* the coroutine of task t ends: its object keeps only what outlives it, the
\* finally block has run (active), and the callers awaiting it are scheduled
EndTask(t, tk, q) ==
    /\ tasks' = [tasks EXCEPT ![t] = Ended(tk)]
    /\ ready' = q \o Waiters(t)

\* first step of the task (lines 447-513).  A task cancelled before it ever
\* ran ends without executing any of its code, the finally block included.
TaskStart(t) ==
    /\ ready # << >>
    /\ Head(ready) = <<"task", t>>
    /\ LET tk == tasks[t]
           id == tk.job
       IN  IF tk.cancelreq
           THEN /\ EndTask(t, tk, Popped)
                /\ UNCHANGED <<experiment_status, db, active_experiments>>
           ELSE \E script_exists \in BOOLEAN, dbok \in DbOutcomes :
                  IF id \in DOMAIN experiment_status /\ script_exists
                  THEN /\ tasks' = [tasks EXCEPT ![t].pc = "spawn"]
                       /\ ready' = Popped
                       /\ UNCHANGED <<experiment_status, db, active_experiments>>
                  ELSE LET r == FailNow(experiment_status, db, id,
                                        IF id \in DOMAIN experiment_status
                                        THEN MsgNoScript ELSE MsgKeyError, dbok)
                       IN  /\ experiment_status' = r.es
                           /\ db' = r.db
                           /\ active_experiments' = Finally(active_experiments, id)
                           /\ EndTask(t, Attempted(tk, 1), Popped)
    /\ last' = NoCall
    /\ UNCHANGED <<outdir, nextid, calls, written, now, scenario>>

\* create_subprocess_exec returns (lines 513-543): the child runs, the two
\* readers are started and the task waits for the child
SpawnDone(t) ==
    /\ t \in 1..Len(tasks)
    /\ tasks[t].pc = "spawn"
    /\ ~tasks[t].cancelreq
    /\ tasks' = [tasks EXCEPT ![t].pc = "poll", ![t].child = "alive",
                              ![t].start_time = now, ![t].poll_start = now,
                              ![t].rd = [ch \in Channels |-> "run"]]
    /\ last' = NoCall
    /\ UNCHANGED <<experiment_status, active_experiments, db, outdir, nextid,
                   calls, ready, written, now, scenario>>

\* CancelledError is thrown into the task at the await it is suspended in
\* (lines 615-622, then 637-640)
CancelStep(t) ==
    /\ ready # << >>
    /\ Head(ready) = <<"cancel", t>>
    /\ LET tk == [tasks[t] EXCEPT !.cancelreq = FALSE]
           awaited == IF tk.rd["stdout"] = "run" THEN "stdout" ELSE "stderr"
       IN  IF tk.pc \in {"poll", "timeout_sleep"} /\ tk.returncode = None
           THEN \* process.terminate(), then asyncio.sleep(2)
                /\ tasks' = [tasks EXCEPT ![t] = [tk EXCEPT !.pc = "cancel_sleep"]]
                /\ ready' = Popped
                /\ UNCHANGED active_experiments
           ELSE /\ EndTask(t, IF tk.pc = "drain"
                              THEN [tk EXCEPT !.rd[awaited] = "done"] ELSE tk,
                           Popped)
                /\ active_experiments' = Finally(active_experiments, tk.job)
    /\ last' = NoCall
    /\ UNCHANGED <<experiment_status, db, outdir, nextid, calls, written, now, scenario>>

\* a supervisor that does not wait for the readers
ReadersIgnored(tk) == TRUE

\* lines 584-588: neither reader task is still reading

ReadersDone(tk) == \A ch \in Channels : tk.rd[ch] # "run"

\* the task goes on after the monitoring loop (lines 584-613): it ends at
\* once when both readers have ended, else it awaits them
AfterLoop(t, tk) ==
    IF ReadersDone(tk)
    THEN \E dbok \in DbOutcomes :
           LET r == Finish(tk, experiment_status, db, outdir, dbok)
           IN  /\ experiment_status' = r.es
               /\ db' = r.db
               /\ active_experiments' = Finally(active_experiments, tk.job)
               /\ EndTask(t, Attempted(tk, r.n), ready)
    ELSE /\ tasks' = [tasks EXCEPT ![t] = [tk EXCEPT !.pc = "drain"]]
         /\ UNCHANGED <<experiment_status, db, active_experiments, ready>>

\* process.wait() returns within the 30 seconds (lines 543-544)
PollExit(t) ==
    /\ t \in 1..Len(tasks)
    /\ tasks[t].pc = "poll"
    /\ ~tasks[t].cancelreq
    /\ tasks[t].returncode # None
    /\ AfterLoop(t, [tasks[t] EXCEPT !.return_code = tasks[t].returncode])
    /\ last' = NoCall
    /\ UNCHANGED <<outdir, nextid, calls, written, now, scenario>>

\* the progress dict that lines 574-582 write from the locals of lines 521-523
PeriodicProgress ==
    [current_iteration |-> Some(0), best_reward |-> None,
     collision_found |-> Some(FALSE)]

\* wait_for raises TimeoutError once poll_interval seconds have passed
\* (lines 545-582)
PollTimeout(t) ==
    /\ t \in 1..Len(tasks)
    /\ tasks[t].pc = "poll"
    /\ ~tasks[t].cancelreq
    /\ now - tasks[t].poll_start >= poll_interval
    /\ LET tk == tasks[t]
           id == tk.job
       IN  IF tk.returncode # None
           THEN \* line 548: break, return_code was never assigned
                AfterLoop(t, tk)
           ELSE IF now - tk.start_time > max_runtime
           THEN \* process.terminate(), then asyncio.sleep(5)
                /\ tasks' = [tasks EXCEPT ![t].pc = "timeout_sleep"]
                /\ UNCHANGED <<experiment_status, db, active_experiments, ready>>
           ELSE /\ experiment_status' =
                      IF id \in DOMAIN experiment_status
                      THEN [experiment_status EXCEPT
                              ![id].progress = Some(PeriodicProgress)]
                      ELSE experiment_status
                /\ tasks' = [tasks EXCEPT ![t].poll_start = now]
                /\ UNCHANGED <<db, active_experiments, ready>>
    /\ last' = NoCall
    /\ UNCHANGED <<outdir, nextid, calls, written, now, scenario>>

\* a kill that is left out
KillNoop(tk) == tk

\* process.kill(): the process is dead at once, process.returncode is set
\* only when the loop has collected it
Kill(tk) == IF tk.returncode = None THEN [tk EXCEPT !.child = "dead"] ELSE tk

\* the sleep of line 555 ends (lines 556-558, then 623-630)
TimeoutWake(t) ==
    /\ t \in 1..Len(tasks)
    /\ tasks[t].pc = "timeout_sleep"
    /\ ~tasks[t].cancelreq
    /\ LET tk == Kill(tasks[t])
       IN  IF tk.returncode = None
           THEN \* the handler terminates again, then asyncio.sleep(2)
                /\ tasks' = [tasks EXCEPT ![t] = [tk EXCEPT !.pc = "fail_sleep"]]
                /\ UNCHANGED <<experiment_status, db, active_experiments, ready>>
           ELSE \E dbok \in DbOutcomes :
                  LET r == FailNow(experiment_status, db, tk.job, MsgTimeout, dbok)
                  IN  /\ experiment_status' = r.es
                      /\ db' = r.db
                      /\ active_experiments' = Finally(active_experiments, tk.job)
                      /\ EndTask(t, Attempted(tk, 1), ready)
    /\ last' = NoCall
    /\ UNCHANGED <<outdir, nextid, calls, written, now, scenario>>

\* the sleep of line 628 ends (lines 629-640)
FailWake(t) ==
    /\ t \in 1..Len(tasks)
    /\ tasks[t].pc = "fail_sleep"
    /\ ~tasks[t].cancelreq
    /\ \E dbok \in DbOutcomes :
         LET tk == Kill(tasks[t])
             r  == FailNow(experiment_status, db, tk.job, MsgTimeout, dbok)
         IN  /\ experiment_status' = r.es
             /\ db' = r.db
             /\ active_experiments' = Finally(active_experiments, tk.job)
             /\ EndTask(t, Attempted(tk, 1), ready)
    /\ last' = NoCall
    /\ UNCHANGED <<outdir, nextid, calls, written, now, scenario>>

\* the sleep of line 619 ends (lines 620-622, then 637-640)
CancelWake(t) ==
    /\ t \in 1..Len(tasks)
    /\ tasks[t].pc = "cancel_sleep"
    /\ ~tasks[t].cancelreq
    /\ active_experiments' = Finally(active_experiments, tasks[t].job)
    /\ EndTask(t, Kill(tasks[t]), ready)
    /\ last' = NoCall
    /\ UNCHANGED <<experiment_status, db, outdir, nextid, calls, written, now, scenario>>

\* both readers have ended while the task awaited them (lines 585-613)
DrainDone(t) ==
    /\ t \in 1..Len(tasks)
    /\ tasks[t].pc = "drain"
    /\ ~tasks[t].cancelreq
    /\ ReadersDone(tasks[t])
    /\ AfterLoop(t, tasks[t])
    /\ last' = NoCall
    /\ UNCHANGED <<outdir, nextid, calls, written, now, scenario>>

\* ------------------------------------------------------------ child process and readers
ExitCodes == {0, 1}

\* the child exits by itself or on SIGTERM, and the loop collects it
ChildExit(t, code) ==
    /\ t \in 1..Len(tasks)
    /\ tasks[t].child = "alive"
    /\ tasks' = [tasks EXCEPT ![t].child = "dead",
                              ![t].returncode = IF tasks[t].pc = "done" THEN None
                                                ELSE Some(code)]
    /\ last' = NoCall
    /\ UNCHANGED <<experiment_status, active_experiments, db, outdir, nextid,
                   calls, ready, written, now, scenario>>

\* the loop collects a killed child
Reap(t) ==
    /\ t \in 1..Len(tasks)
    /\ tasks[t].pc # "done"
    /\ tasks[t].child = "dead"
    /\ tasks[t].returncode = None
    /\ tasks' = [tasks EXCEPT ![t].returncode = Some(-9)]
    /\ last' = NoCall
    /\ UNCHANGED <<experiment_status, active_experiments, db, outdir, nextid,
                   calls, ready, written, now, scenario>>

\* the child writes a line to one of its pipes
ChildWrite(t, ch, line) ==
    /\ t \in 1..Len(tasks)
    /\ tasks[t].child = "alive"
    /\ written < LineBound
    /\ written' = written + 1
    /\ tasks' = [tasks EXCEPT ![t].pipe[ch] = Append(@, line)]
    /\ last' = NoCall
    /\ UNCHANGED <<experiment_status, active_experiments, db, outdir, nextid,
                   calls, ready, now, scenario>>

\* best_solution.json as the child writes it
Artifacts ==
    {[best_reward |-> Some(42), collision_found |-> b] : b \in BOOLEAN}

ChildArtifact(t, art) ==
    /\ t \in 1..Len(tasks)
    /\ scenario \in {"output", "files"}
    /\ tasks[t].child = "alive"
    /\ tasks[t].job \in DOMAIN outdir
    /\ outdir[tasks[t].job] # Some(art)
    /\ outdir' = [outdir EXCEPT ![tasks[t].job] = Some(art)]
    /\ last' = NoCall
    /\ UNCHANGED <<experiment_status, active_experiments, db, nextid, tasks,
                   calls, ready, written, now, scenario>>

\* _read_stream reads one line and parses it (lines 646-658)
ReadLine(t, ch) ==
    /\ t \in 1..Len(tasks)
    /\ tasks[t].rd[ch] = "run"
    /\ tasks[t].pipe[ch] # << >>
    /\ experiment_status' =
           parse_progress_info(experiment_status, tasks[t].job,
                               Head(tasks[t].pipe[ch]))
    /\ tasks' = [tasks EXCEPT ![t].pipe[ch] = Tail(@)]
    /\ last' = NoCall
    /\ UNCHANGED <<active_experiments, db, outdir, nextid, calls, ready,
                   written, now, scenario>>

\* _read_stream reads end-of-stream (lines 647-648)
ReadEOF(t, ch) ==
    /\ t \in 1..Len(tasks)
    /\ tasks[t].rd[ch] = "run"
    /\ tasks[t].pipe[ch] = << >>
    /\ tasks[t].child = "dead"
    /\ tasks' = [tasks EXCEPT ![t].rd[ch] = "done"]
    /\ last' = NoCall
    /\ UNCHANGED <<experiment_status, active_experiments, db, outdir, nextid,
                   calls, ready, written, now, scenario>>

\* ------------------------------------------------------------ clock
Ticks(n) == (n \div max_runtime) + ((n % max_runtime) \div poll_interval)

Tick(d) ==
    /\ Ticks(now) < TickBound
    /\ now' = now + d
    /\ last' = NoCall
    /\ UNCHANGED <<experiment_status, active_experiments, db, outdir, nextid,
                   tasks, calls, ready, written, scenario>>

\* ------------------------------------------------------------ specification
Next ==
    \/ Create
    \/ \E id \in Ids : Start(id)
    \/ \E id \in Ids : Stop(id)
    \/ \E id \in Ids : Delete(id)
    \/ \E id \in Ids, n \in {None} \cup {Some(x) : x \in Notes},
          g \in {None} \cup {Some(x) : x \in Tags} : Update(id, n, g)
    \/ \E c \in CallIds : Wake(c)
    \/ \E t \in TaskIds : TaskStart(t)
    \/ \E t \in TaskIds : SpawnDone(t)
    \/ \E t \in TaskIds : CancelStep(t)
    \/ \E t \in TaskIds : PollExit(t)
    \/ \E t \in TaskIds : PollTimeout(t)
    \/ \E t \in TaskIds : TimeoutWake(t)
    \/ \E t \in TaskIds : FailWake(t)
    \/ \E t \in TaskIds : CancelWake(t)
    \/ \E t \in TaskIds : DrainDone(t)
    \/ \E t \in TaskIds, code \in ExitCodes : ChildExit(t, code)
    \/ \E t \in TaskIds : Reap(t)
    \/ \E t \in TaskIds, ch \in Channels, line \in ChildLines : ChildWrite(t, ch, line)
    \/ \E t \in TaskIds, art \in Artifacts : ChildArtifact(t, art)
    \/ \E t \in TaskIds, ch \in Channels : ReadLine(t, ch)
    \/ \E t \in TaskIds, ch \in Channels : ReadEOF(t, ch)
    \/ \E d \in {poll_interval, max_runtime} : Tick(d)

Spec == Init /\ [][Next]_vars

\* The timers of the supervised task expire: the wait_for of line 543 and the
\* sleeps of lines 555 and 628 end once they are due.
TimerFairness ==
    \A t \in 1..ClockTasks :
        /\ WF_vars(PollTimeout(t))
        /\ WF_vars(TimeoutWake(t))
        /\ WF_vars(FailWake(t))

\* The runs of scenario "clock" (no output lines, no artifact, no update)
\* with the timers expiring.
ClockInit == Init /\ scenario = "clock"

ClockNext ==
    \/ Create
    \/ \E id \in Ids : Start(id)
    \/ \E id \in Ids : Stop(id)
    \/ \E id \in Ids : Delete(id)
    \/ \E c \in CallIds : Wake(c)
    \/ \E t \in TaskIds : TaskStart(t)
    \/ \E t \in TaskIds : SpawnDone(t)
    \/ \E t \in TaskIds : CancelStep(t)
    \/ \E t \in TaskIds : PollExit(t)
    \/ \E t \in TaskIds : PollTimeout(t)
    \/ \E t \in TaskIds : TimeoutWake(t)
    \/ \E t \in TaskIds : FailWake(t)
    \/ \E t \in TaskIds : CancelWake(t)
    \/ \E t \in TaskIds : DrainDone(t)
    \/ \E t \in TaskIds, code \in ExitCodes : ChildExit(t, code)
    \/ \E t \in TaskIds : Reap(t)
    \/ \E t \in TaskIds, ch \in Channels : ReadEOF(t, ch)
    \/ \E d \in {poll_interval, max_runtime} : Tick(d)

ClockSpec == ClockInit /\ [][ClockNext]_vars /\ TimerFairness

\* The runs of scenario "files": one job and one task, with the reads and
\* update called between the other operations.
FilesInit == InitIn({"files"})

FilesNext ==
    \/ Create
    \/ \E id \in Ids : Start(id)
    \/ \E id \in Ids : Stop(id)
    \/ \E id \in Ids : Delete(id)
    \/ \E id \in Ids, n \in {None} \cup {Some(x) : x \in Notes},
          g \in {None} \cup {Some(x) : x \in Tags} : Update(id, n, g)
    \/ \E id \in Ids : Get(id)
    \/ \E l \in Limits, o \in Offsets, sf \in StatusFilters, sm \in MethodFilters :
          List(l, o, sf, sm)
    \/ \E id \in Ids : Results(id)
    \/ \E id \in Ids, f \in FileNames, o \in Outside : FilePath(id, f, o)
    \/ \E c \in CallIds : Wake(c)
    \/ \E t \in TaskIds : TaskStart(t)
    \/ \E t \in TaskIds : SpawnDone(t)
    \/ \E t \in TaskIds : CancelStep(t)
    \/ \E t \in TaskIds : PollExit(t)
    \/ \E t \in TaskIds : CancelWake(t)
    \/ \E t \in TaskIds : DrainDone(t)
    \/ \E t \in TaskIds, code \in ExitCodes : ChildExit(t, code)
    \/ \E t \in TaskIds, art \in Artifacts : ChildArtifact(t, art)
    \/ \E t \in TaskIds, ch \in Channels : ReadEOF(t, ch)

FilesSpec == FilesInit /\ [][FilesNext]_vars

\* The runs of scenario "registry": several jobs with different search
\* methods, one of them executed, and list called between the other
\* operations.
RegistryInit == InitIn({"registry"})

RegistryNext ==
    \/ Create
    \/ \E id \in Ids : Start(id)
    \/ \E id \in Ids : Stop(id)
    \/ \E id \in Ids : Delete(id)
    \/ \E l \in Limits, o \in Offsets, sf \in StatusFilters, sm \in MethodFilters :
          List(l, o, sf, sm)
    \/ \E t \in TaskIds : TaskStart(t)
    \/ \E t \in TaskIds : SpawnDone(t)
    \/ \E t \in TaskIds : PollExit(t)
    \/ \E t \in TaskIds : DrainDone(t)
    \/ \E t \in TaskIds, code \in ExitCodes : ChildExit(t, code)
    \/ \E t \in TaskIds, ch \in Channels : ReadEOF(t, ch)

RegistrySpec == RegistryInit /\ [][RegistryNext]_vars

\* The process ends and a new one constructs the service (lines 42-46): the
\* registry is what _load_experiments_from_database builds of the table, the
\* active-task map is empty, and the tasks, suspended calls and event loop of
\* the old process are gone.  The table and the output directories outlive
\* the process.
Restart ==
    /\ scenario = "store"
    /\ scenario' = "reloaded"
    /\ \E dbok \in BOOLEAN :
          /\ experiment_status' = _load_experiments_from_database(db, dbok)
          /\ last' = [op |-> "restart", id |-> 0,
                      res |-> IF dbok THEN "ok" ELSE "failed"]
    /\ active_experiments' = << >>
    /\ tasks' = << >>
    /\ calls' = << >>
    /\ ready' = << >>
    /\ UNCHANGED <<db, outdir, nextid, written, now>>

\* The runs of scenario "store": a table with records of an earlier lifetime,
\* one more job, and at most one restart of the process.
RestartInit == InitIn({"store"})

RestartNext ==
    \/ Create
    \/ \E id \in Ids : Start(id)
    \/ \E id \in Ids : Stop(id)
    \/ \E id \in Ids : Delete(id)
    \/ \E c \in CallIds : Wake(c)
    \/ \E t \in TaskIds : TaskStart(t)
    \/ \E t \in TaskIds : SpawnDone(t)
    \/ \E t \in TaskIds : CancelStep(t)
    \/ \E t \in TaskIds : PollExit(t)
    \/ \E t \in TaskIds : CancelWake(t)
    \/ \E t \in TaskIds : DrainDone(t)
    \/ \E t \in TaskIds, code \in ExitCodes : ChildExit(t, code)
    \/ \E t \in TaskIds, ch \in Channels : ReadEOF(t, ch)
    \/ Restart

RestartSpec == RestartInit /\ [][RestartNext]_vars

\* The runs of scenario "pair": two jobs, each with its own supervised task,
\* child and readers, and the operations of the two interleaved.
PairInit == InitIn({"pair"})

PairNext ==
    \/ Create
    \/ \E id \in Ids : Start(id)
    \/ \E id \in Ids : Stop(id)
    \/ \E id \in Ids : Delete(id)
    \/ \E id \in Ids, n \in Notes : Update(id, Some(n), None)
    \/ \E c \in CallIds : Wake(c)
    \/ \E t \in TaskIds : TaskStart(t)
    \/ \E t \in TaskIds : SpawnDone(t)
    \/ \E t \in TaskIds : CancelStep(t)
    \/ \E t \in TaskIds : PollExit(t)
    \/ \E t \in TaskIds : CancelWake(t)
    \/ \E t \in TaskIds : DrainDone(t)
    \/ \E t \in TaskIds, code \in ExitCodes : ChildExit(t, code)
    \/ \E t \in TaskIds : ChildWrite(t, "stdout", RewardLine)
    \/ \E t \in TaskIds : ReadLine(t, "stdout")
    \/ \E t \in TaskIds, ch \in Channels : ReadEOF(t, ch)

PairSpec == PairInit /\ [][PairNext]_vars

\* The event loop runs the callbacks of its ready queue: the first step of a
\* task, the delivery of a CancelledError and the resumption of a caller that
\* awaited a task are each taken once they are at the head of the queue.
LoopFairness ==
    /\ \A t \in 1..ClockTasks : WF_vars(TaskStart(t)) /\ WF_vars(CancelStep(t))
    /\ \A c \in 1..MaxCalls : WF_vars(Wake(c))

\* The runs of scenario "clock" with the timers expiring and the event loop
\* running its ready queue.
LoopSpec == ClockInit /\ [][ClockNext]_vars /\ TimerFairness /\ LoopFairness

\* Every run makes progress: the child exits at some time, the loop collects
\* it, and the supervised task and its readers take each step that they can
\* take.
RunFairness ==
    \A t \in 1..ClockTasks :
        /\ WF_vars(\E code \in ExitCodes : ChildExit(t, code))
        /\ WF_vars(Reap(t))
        /\ WF_vars(SpawnDone(t))
        /\ WF_vars(PollExit(t))
        /\ WF_vars(CancelWake(t))
        /\ WF_vars(DrainDone(t))
        /\ \A ch \in Channels : WF_vars(ReadEOF(t, ch))

\* The runs of scenario "clock" under fair scheduling of everything that
\* belongs to a run; the calls of the facade are not forced.
FairSpec == LoopSpec /\ RunFairness

\* ------------------------------------------------------------ observations
\* the supervised tasks of job id whose coroutine has not ended
LiveTasks(id) == {t \in 1..Len(tasks) : tasks[t].job = id /\ tasks[t].pc # "done"}

\* the child processes of job id that are alive
LiveChildren(id) ==
    {t \in 1..Len(tasks) : tasks[t].job = id /\ tasks[t].child = "alive"}

\* get(id).progress.collision_found is true
CollisionSeen(es, id) ==
    /\ id \in DOMAIN es
    /\ es[id].progress # None
    /\ es[id].progress[1].collision_found = Some(TRUE)

\* task t waits for a child that has not exited although more than
\* max_runtime seconds have passed since its launch
Overdue(t) ==
    /\ t \in 1..Len(tasks)
    /\ tasks[t].pc = "poll"
    /\ tasks[t].child = "alive"
    /\ now - tasks[t].start_time > max_runtime

\* task t has ended, its child is not running and its job is failed with the
\* timeout message
TimedOut(t) ==
    /\ t \in 1..Len(tasks)
    /\ tasks[t].pc = "done"
    /\ tasks[t].child = "dead"
    /\ tasks[t].job \in DOMAIN experiment_status
    /\ experiment_status[tasks[t].job].status = "failed"
    /\ experiment_status[tasks[t].job].error_message = Some(MsgTimeout)

\* the run of task t is interrupted: it is being cancelled, its job was
\* deleted, or its child has exited by itself before the supervisor noticed
\* the timeout
Interrupted(t) ==
    /\ t \in 1..Len(tasks)
    /\ \/ tasks[t].cancelreq
       \/ tasks[t].job \notin DOMAIN experiment_status
       \/ tasks[t].pc = "poll" /\ tasks[t].returncode # None

\* the active-task map maps the job of task t to task t
Associated(t) ==
    /\ tasks[t].job \in DOMAIN active_experiments
    /\ active_experiments[tasks[t].job] = t

\* call c resumes in this step
Resumes(c) == calls[c].st = "waiting" /\ calls'[c].st # "waiting"

\* the coroutine of task t ends in this step
Ends(t) == tasks[t].pc # "done" /\ tasks'[t].pc = "done"

\* the progress of job id as a reader of the registry sees it
ProgressOf(es, id) ==
    IF es[id].progress = None THEN EmptyProgress ELSE es[id].progress[1]

\* ------------------------------------------------------------ properties
\* C1: when a stop(id) call that cancelled a supervised task which had
\* launched its child resumes, it returns normally, the job's status is
\* stopped and no child process of the job is alive.
C1_StopReturnsStopped ==
    [][\A c \in 1..Len(calls) :
         (calls[c].kind = "stop" /\ Resumes(c)
          /\ tasks[calls[c].task].child # "none") =>
            /\ calls'[c].st = "returned"
            /\ calls[c].job \in DOMAIN experiment_status'
            /\ experiment_status'[calls[c].job].status = "stopped"
            /\ LiveChildren(calls[c].job)' = {}]_vars

\* C2: in every reachable state each job has at most one supervised task
\* that has not ended and at most one child process alive.
C2_OneLiveSubprocess ==
    \A id \in Ids :
        /\ Cardinality(LiveTasks(id)) <= 1
        /\ Cardinality(LiveChildren(id)) <= 1

\* C3: once the status of a job is completed, failed or stopped, no step
\* changes it.
C3_TerminalAbsorbing ==
    [][\A id \in DOMAIN experiment_status \cap DOMAIN experiment_status' :
         experiment_status[id].status \in Terminal =>
            experiment_status'[id].status = experiment_status[id].status]_vars

\* C4: started_at is set only by a created -> running transition, and once
\* set it never changes.
C4_StartedAtSetOnce ==
    [][\A id \in DOMAIN experiment_status \cap DOMAIN experiment_status' :
         LET old == experiment_status[id]
             new == experiment_status'[id]
         IN  /\ old.started_at # None => new.started_at = old.started_at
             /\ (old.started_at = None /\ new.started_at # None) =>
                    (old.status = "created" /\ new.status = "running")]_vars

\* C5: completed_at is set only by a transition from a non-terminal into a
\* terminal status, and once set it never changes.
C5_CompletedAtSetOnce ==
    [][\A id \in DOMAIN experiment_status \cap DOMAIN experiment_status' :
         LET old == experiment_status[id]
             new == experiment_status'[id]
         IN  /\ old.completed_at # None => new.completed_at = old.completed_at
             /\ (old.completed_at = None /\ new.completed_at # None) =>
                    (old.status \notin Terminal /\ new.status \in Terminal)]_vars

\* C6: within one run of a job (no new task is started), once
\* progress.collision_found is true it stays true.
C6_CollisionLatch ==
    [][\A id \in Ids :
         (Len(tasks') = Len(tasks) /\ CollisionSeen(experiment_status, id)
          /\ id \in DOMAIN experiment_status') =>
            CollisionSeen(experiment_status', id)]_vars

\* C7: start(id) fails with NotFound for an unknown id and with
\* AlreadyRunning when the id has an active task, stop(id) fails with
\* NotRunning when the id has no active task, and a failing call leaves the
\* registry and the active-task map unchanged.
C7_FailingCallsChangeNothing ==
    [][LET id == last'.id
       IN  /\ last'.op = "start" =>
                /\ id \notin DOMAIN experiment_status => last'.res = "NotFound"
                /\ (id \in DOMAIN experiment_status
                    /\ id \in DOMAIN active_experiments) =>
                       last'.res = "AlreadyRunning"
                /\ last'.res \in {"NotFound", "AlreadyRunning"} =>
                       UNCHANGED <<experiment_status, active_experiments>>
           /\ (last'.op = "stop" /\ calls' = calls) =>
                /\ id \notin DOMAIN active_experiments => last'.res = "NotRunning"
                /\ last'.res = "NotRunning" =>
                       UNCHANGED <<experiment_status, active_experiments>>]_vars

\* C7 witness: a start call has just failed with AlreadyRunning while the
\* job's task supervises a living child.
C7_Witness ==
    /\ last.op = "start"
    /\ last.res = "AlreadyRunning"
    /\ LiveChildren(last.id) # {}

\* C8: when a delete(id) call that stopped a task which had launched its
\* child resumes, it returns true and the registry entry and the output
\* directory are gone, so that get(id) returns nothing; delete(id) on an
\* unknown id returns false and changes nothing.
C8_DeleteRemovesJob ==
    [][/\ \A c \in 1..Len(calls) :
            (calls[c].kind = "delete" /\ Resumes(c)
             /\ tasks[calls[c].task].child # "none") =>
               /\ calls'[c].st = "returned"
               /\ calls[c].job \notin DOMAIN experiment_status'
               /\ calls[c].job \notin DOMAIN outdir'
       /\ (last'.op = "delete" /\ last'.id \notin DOMAIN experiment_status
           /\ calls' = calls) =>
               /\ last'.res = "False"
               /\ UNCHANGED <<experiment_status, active_experiments, outdir>>]_vars

\* C9: when the task of a job ends after its child exited with code 0,
\* having emitted progress lines that the readers have read and written
\* best_solution.json, and the task was not cancelled, the job's status is
\* completed and results(id).best_reward is the best_reward of the file.
C9_ExitZeroCompletes ==
    [][\A t \in 1..Len(tasks) :
         LET id == tasks[t].job
         IN  (/\ Ends(t)
              /\ tasks[t].pc \in {"poll", "drain"}
              /\ ~tasks[t].cancelreq
              /\ tasks[t].returncode = Some(0)
              /\ written > 0
              /\ \A ch \in Channels : tasks[t].pipe[ch] = << >>
              /\ id \in DOMAIN experiment_status
              /\ experiment_status[id].progress # None
              /\ id \in DOMAIN outdir /\ outdir[id] # None) =>
                 LET res == get_experiment_results(experiment_status', outdir', id)
                 IN  /\ experiment_status'[id].status = "completed"
                     /\ res # None
                     /\ res[1].final_status = "completed"
                     /\ res[1].best_reward = outdir[id][1].best_reward]_vars

\* C10 (steps): the supervisor starts terminating the child only when more
\* than max_runtime seconds have passed since the launch; the child is dead
\* once the grace period is over; and when the task then ends (not
\* cancelled) the child is not running and the job is failed with the
\* timeout message.
TimeoutSteps ==
    [][\A t \in 1..Len(tasks) :
         LET id == tasks[t].job
         IN  /\ (tasks[t].pc = "poll" /\ tasks'[t].pc = "timeout_sleep") =>
                    now - tasks[t].start_time > max_runtime
             /\ (tasks[t].pc = "timeout_sleep" /\ tasks'[t].pc # "timeout_sleep"
                 /\ ~tasks[t].cancelreq) =>
                    tasks'[t].child = "dead"
             /\ (tasks[t].pc \in {"timeout_sleep", "fail_sleep"} /\ Ends(t)
                 /\ ~tasks[t].cancelreq) =>
                    /\ tasks'[t].child = "dead"
                    /\ id \in DOMAIN experiment_status' =>
                         /\ experiment_status'[id].status = "failed"
                         /\ experiment_status'[id].error_message = Some(MsgTimeout)]_vars

\* C10: a child that has not exited when the overall timeout has elapsed is
\* terminated, killed after the grace period if still alive, and unless the
\* run is interrupted the task ends with the child not running and the job
\* failed with the timeout message.
C10_TimeoutFails ==
    /\ TimeoutSteps
    /\ \A t \in 1..ClockTasks : Overdue(t) ~> (TimedOut(t) \/ Interrupted(t))

\* C10 witness: a task that had to kill its child after the grace period has
\* ended, and the job is failed with the timeout message.
C10_Witness ==
    \E t \in 1..Len(tasks) :
        /\ tasks[t].pc = "done"
        /\ tasks[t].child = "dead"
        /\ tasks[t].job \in DOMAIN experiment_status
        /\ experiment_status[tasks[t].job].status = "failed"
        /\ experiment_status[tasks[t].job].error_message = Some(MsgTimeout)
        /\ now > max_runtime

\* C11: in every reachable state a job id present in the active-task map is
\* a job of the registry whose status is running.
C11_ActiveIsRunning ==
    \A id \in DOMAIN active_experiments :
        /\ id \in DOMAIN experiment_status
        /\ experiment_status[id].status = "running"

\* C11 witness: a job that was started again after an earlier run ended has
\* an active task supervising a living child.
C11_Witness ==
    \E id \in DOMAIN active_experiments :
        /\ active_experiments[id] > 1
        /\ tasks[active_experiments[id]].child = "alive"
        /\ experiment_status[id].completed_at # None

C13_OneTerminalTransition ==
    \A t \in 1..Len(tasks) :
        (tasks[t].pc = "done" /\ tasks[t].child # "none" /\ Waiters(t) = << >>)
            => tasks[t].attempts = 1

\* C14: filePath(id, filename) returns a path only when id is a job of the
\* registry and the path obtained by resolving filename against the job's
\* output directory lies inside that directory and exists; for "../secret" it
\* returns nothing whether or not a file exists at the escaped location, and
\* for an unknown id it returns nothing.
C14_FilePathGuard ==
    \A id \in DOMAIN JobDir, f \in FileNames, o \in Outside :
        LET res    == get_experiment_file_path(experiment_status, outdir, id, f, o)
            target == Resolve(Join(OutputDir(id), f))
        IN  /\ res # None =>
                /\ id \in DOMAIN experiment_status
                /\ \E k \in 0..Len(target) : SubSeq(target, 1, k) = OutputDir(id)
                /\ target \in Directories(outdir) \cup Files(outdir, o)
            /\ f = <<"..", "secret">> => res = None
            /\ id \notin DOMAIN experiment_status => res = None

\* C14 witness: filePath(id, "../secret") has returned nothing for a job
\* whose best_solution.json exists, while a file named secret exists beside
\* the output directory.
C14_Witness ==
    /\ last.op = "filePath"
    /\ last.arg = << <<"..", "secret">>, {<<"output", "secret">>} >>
    /\ last.res = None
    /\ last.id \in DOMAIN experiment_status
    /\ last.id \in DOMAIN outdir
    /\ outdir[last.id] # None

\* the parser, given a line "Iteration X/Y" of `iterations` (pairs of a line
\* and its X), sets current_iteration to X and leaves best_reward and
\* collision_found as they were; given a line "Best reward: R ..." of
\* `rewards` (pairs of a line and its R in tenths), it sets best_reward to R
\* and leaves current_iteration and collision_found as they were
ParserSets(iterations, rewards) ==
    \A id \in DOMAIN experiment_status :
        LET old == ProgressOf(experiment_status, id)
        IN  /\ \A p \in iterations :
                  LET new == ProgressOf(parse_progress_info(experiment_status,
                                                            id, p[1]), id)
                  IN  /\ new.current_iteration = Some(p[2])
                      /\ new.best_reward = old.best_reward
                      /\ new.collision_found = old.collision_found
            /\ \A p \in rewards :
                  LET new == ProgressOf(parse_progress_info(experiment_status,
                                                            id, p[1]), id)
                  IN  /\ new.best_reward = Some(p[2])
                      /\ new.current_iteration = old.current_iteration
                      /\ new.collision_found = old.collision_found

TransitionKwargs ==
    {<< >>, << <<"error_message", Some(MsgTimeout)>> >>,
     << <<"final_reward", Some(42)>>, <<"collision_found", Some(FALSE)>> >>}

\* in the current state, what a status transition leaves in memory and what
\* it raises do not depend on whether the database call succeeds, nor on
\* what the table holds
UpdateFailureInvisible ==
    \A id \in Ids, status \in {"running", "completed", "failed", "stopped"},
       kw \in TransitionKwargs :
        LET ok   == _update_experiment_status(experiment_status, db, id, status,
                                              kw, now, TRUE)
            fail == _update_experiment_status(experiment_status, db, id, status,
                                              kw, now, FALSE)
            lost == _update_experiment_status(experiment_status, << >>, id,
                                              status, kw, now, TRUE)
        IN  /\ ok.es = fail.es /\ ok.exc = fail.exc
            /\ ok.es = lost.es /\ ok.exc = lost.exc

\* create and start return normally and leave the same registry entry and
\* active-task entry whether or not their database call changed the table
CallersUnaffected ==
    LET id == last'.id
    IN  /\ last'.op = "create" =>
              /\ last'.res = "ok"
              /\ experiment_status'[id].status = "created"
              /\ experiment_status'[id].created_at = Some(now)
              /\ experiment_status'[id].started_at = None
              /\ active_experiments' = active_experiments
        /\ (last'.op = "start" /\ StartCheck(id) = "ok") =>
              /\ last'.res = "ok"
              /\ experiment_status'[id].status = "running"
              /\ experiment_status'[id].started_at = Some(now)
              /\ active_experiments' = Put(active_experiments, id, Len(tasks'))

\* C16 (amended): a failure of save or of updateStatus never affects the
\* in-memory status, timestamps or active-task map and is not raised to the
\* caller of create or start (nor, through the transition, of stop).
C16_SaveUpdateFailuresInvisible ==
    []UpdateFailureInvisible /\ [][CallersUnaffected]_vars

\* C16 (as stated): in addition, a service constructed on the table of any
\* reachable state has the same registry whether list_experiment_records
\* succeeds or fails at startup.
C16_StoreFailuresInvisible ==
    /\ UpdateFailureInvisible
    /\ _load_experiments_from_database(db, TRUE)
           = _load_experiments_from_database(db, FALSE)

\* C16 witness: a job whose record was never saved has been started: it is
\* running in memory with an active task, and the table does not know it.
C16_Witness ==
    /\ last.op = "start" /\ last.res = "ok"
    /\ last.id \notin DOMAIN db
    /\ last.id \in DOMAIN active_experiments
    /\ experiment_status[last.id].status = "running"
    /\ experiment_status[last.id].started_at = Some(now)

\* C17: a step of get, list, results or filePath changes nothing in the
\* registry or the active-task map (nor in the table, the output directories
\* or the tasks), and a step of update(id, {notes, tags}) changes at most the
\* notes and the tags of job id: status, timestamps, progress, search method
\* and error_message of every job and the active-task map stay as they were.
C17_ReadsAndUpdate ==
    [][/\ last'.op \in ReadOps =>
            /\ experiment_status' = experiment_status
            /\ active_experiments' = active_experiments
            /\ db' = db /\ outdir' = outdir /\ tasks' = tasks
       /\ last'.op = "update" =>
            /\ active_experiments' = active_experiments
            /\ db' = db /\ outdir' = outdir /\ tasks' = tasks
            /\ DOMAIN experiment_status' = DOMAIN experiment_status
            /\ \A id \in DOMAIN experiment_status :
                  /\ id # last'.id => experiment_status'[id] = experiment_status[id]
                  /\ [experiment_status'[id] EXCEPT
                         !.notes = experiment_status[id].notes,
                         !.tags  = experiment_status[id].tags]
                       = experiment_status[id]]_vars

\* C17 witness: update has set the notes and the tags of a job that is
\* running under an active task.
C17_Witness ==
    /\ last.op = "update" /\ last.res = "ok"
    /\ experiment_status[last.id].notes # None
    /\ experiment_status[last.id].tags # None
    /\ experiment_status[last.id].status = "running"
    /\ last.id \in DOMAIN active_experiments

\* C18: list(status_filter, search_method, offset, limit) returns exactly
\* the jobs of the registry whose status equals status_filter (when given)
\* and whose search method equals search_method (when given), in insertion
\* order, restricted to the positions offset .. offset+limit-1 of that
\* filtered sequence: the k-th job returned is the matching job that has
\* offset+k-1 matching jobs before it, and as many jobs are returned as the
\* filtered sequence has at those positions.
C18_ListFiltersAndPages ==
    \A l \in Limits, o \in Offsets, sf \in StatusFilters, sm \in MethodFilters :
        LET res == list_experiments(experiment_status, l, o, sf, sm)
            F   == {id \in DOMAIN experiment_status :
                      /\ sf # None => experiment_status[id].status = sf[1]
                      /\ sm # None => experiment_status[id].search_method = sm[1]}
            n   == Cardinality(F) - o
        IN  /\ Len(res) = IF n <= 0 THEN 0 ELSE IF n < l THEN n ELSE l
            /\ \A k \in 1..Len(res) :
                  /\ res[k].id \in F
                  /\ Cardinality({j \in F : j < res[k].id}) = o + k - 1
                  /\ res[k].status = experiment_status[res[k].id].status
                  /\ res[k].search_method =
                         experiment_status[res[k].id].search_method

\* C18 witness: of three jobs, the first and the third with search method
\* pso and the first no longer created, list has returned the third alone.
C18_Witness ==
    /\ last.op = "list"
    /\ DOMAIN experiment_status = {1, 2, 3}
    /\ experiment_status[1].search_method = "pso"
    /\ experiment_status[2].search_method = "random"
    /\ experiment_status[3].search_method = "pso"
    /\ experiment_status[1].status = "failed"
    /\ last.res = <<ListItem(experiment_status, 3)>>

\* C19: in every step taken while a job is executed by its supervised task,
\* the job's current_iteration does not decrease or become absent and its
\* best_reward, once present, does not become absent.
C19_ProgressMonotonic ==
    [][\A id \in DOMAIN experiment_status \cap DOMAIN experiment_status' :
         (/\ id \in DOMAIN active_experiments
          /\ tasks[active_experiments[id]].pc \notin {"new", "done"}) =>
            LET old == ProgressOf(experiment_status, id)
                new == ProgressOf(experiment_status', id)
            IN  /\ old.current_iteration # None =>
                      /\ new.current_iteration # None
                      /\ new.current_iteration[1] >= old.current_iteration[1]
                /\ old.best_reward # None => new.best_reward # None]_vars

\* C20: no child process outlives its supervised task: in every reachable
\* state the child of a task that has ended, if it was started, is not alive.
C20_NoOrphanChild ==
    \A t \in 1..Len(tasks) : tasks[t].pc = "done" => tasks[t].child # "alive"

\* the messages of the exceptions with which the run of task tk can end in
\* the next step when it is not being cancelled
FailureMessages(tk) ==
    LET OfCode(rc) == IF rc = None THEN {MsgUnbound}
                      ELSE IF rc = Some(0) THEN {MsgDictChanged, MsgNoneType}
                      ELSE {MsgReturnCode}
    IN  CASE tk.pc = "new"  -> {MsgNoScript}
          [] tk.pc \in {"timeout_sleep", "fail_sleep"} -> {MsgTimeout}
          [] tk.pc = "poll"  -> OfCode(tk.returncode) \cup {MsgUnbound}
          [] tk.pc = "drain" -> OfCode(tk.return_code)
          [] OTHER -> {}

\* C21: when the run of a supervised task ends otherwise than by
\* cancellation (the launch precondition fails, the child exits with a
\* non-zero code, the overall timeout fires, or the supervising code raises),
\* then in the resulting state the child is not alive, the job, if it is
\* still in the registry, has status failed and the message of the exception
\* as error_message, and the step is not the failure of any facade call.
C21_FailureIsCaught ==
    [][\A t \in 1..Len(tasks) :
         (Ends(t) /\ ~tasks[t].cancelreq /\ tasks[t].pc # "cancel_sleep") =>
            /\ tasks'[t].child # "alive"
            /\ last' = NoCall
            /\ tasks[t].job \in DOMAIN experiment_status =>
                  /\ tasks[t].job \in DOMAIN experiment_status'
                  /\ experiment_status'[tasks[t].job].status = "failed"
                  /\ experiment_status'[tasks[t].job].error_message # None
                  /\ experiment_status'[tasks[t].job].error_message[1]
                        \in FailureMessages(tasks[t])]_vars

\* C21 witness: the child of a task exited with code 1, both readers reached
\* end-of-stream, the task has ended and left its job failed with the
\* return-code message and no entry in the active-task map.
C21_Witness ==
    \E t \in 1..Len(tasks) :
        /\ tasks[t].pc = "done" /\ tasks[t].child = "dead"
        /\ tasks[t].attempts = 1
        /\ \A ch \in Channels : tasks[t].rd[ch] = "done"
        /\ tasks[t].job \in DOMAIN experiment_status
        /\ tasks[t].job \notin DOMAIN active_experiments
        /\ experiment_status[tasks[t].job].status = "failed"
        /\ experiment_status[tasks[t].job].error_message = Some(MsgReturnCode)

\* C22: in every step that removes the output directory of a job, no
\* supervised task of that job is still unfinished and no child process of
\* that job is alive.
C22_DeleteNotInFlight ==
    [][\A id \in DOMAIN outdir :
         id \notin DOMAIN outdir' =>
            /\ LiveTasks(id) = {}
            /\ LiveChildren(id) = {}]_vars

C24_CollisionLatch ==
    \A id \in DOMAIN experiment_status :
        LET old == ProgressOf(experiment_status, id)
            After(line) == ProgressOf(parse_progress_info(experiment_status,
                                                          id, line), id)
        IN  /\ \A line \in {CollisionLine, MixedLine, IterCollLine} :
                  After(line).collision_found = Some(TRUE)
            /\ \A line \in ChildLines \cup {MixedLine, IterCollLine} :
                  old.collision_found = Some(TRUE)
                      => After(line).collision_found = Some(TRUE)

\* job id has a progress with current_iteration 0
ZeroProgress(id) ==
    /\ experiment_status[id].progress # None
    /\ experiment_status[id].progress[1].current_iteration = Some(0)

\* job id has no progress when its record has neither a best reward nor a
\* collision, and a progress with current_iteration 0 and the best reward of
\* the record otherwise
RecordProgress(id) ==
    IF db[id].best_reward # None \/ db[id].collision_found
    THEN /\ ZeroProgress(id)
         /\ experiment_status[id].progress[1].best_reward = db[id].best_reward
    ELSE experiment_status[id].progress = None

\* what C25 says of every record of the table right after a restart, with
\* the progress that is expected of a record
ReloadedWith(Expected(_)) ==
    last.op = "restart" =>
        /\ active_experiments = << >>
        /\ \A id \in DOMAIN db :
              /\ id \in DOMAIN experiment_status
              /\ experiment_status[id].status = db[id].status
              /\ experiment_status[id].search_method = db[id].search_method
              /\ Expected(id)

\* stop called right after a restart fails with NotRunning
StopAfterRestart ==
    (last.op = "restart" /\ last'.op = "stop") => last'.res = "NotRunning"

\* C25 (as stated): after a restart every job of the table is in the registry
\* with the status and the config of its record and with
\* progress.current_iteration 0, the active-task map is empty and stop on any
\* job fails with NotRunning.
C25_ReloadedAsStored ==
    [](ReloadedWith(ZeroProgress)) /\ [][StopAfterRestart]_vars

\* C25 (amended): after a restart whose listing of the table succeeded, every
\* job of the table is in the registry with the status and the config of its
\* record; its progress is absent when the record has neither a best reward
\* nor a collision, and has current_iteration 0 otherwise.  After a restart
\* whose listing failed the registry is empty.  In both cases the active-task
\* map is empty and stop on any job fails with NotRunning.
C25_ReloadedWhenListed ==
    /\ [](last.res = "ok" => ReloadedWith(RecordProgress))
    /\ []((last.op = "restart" /\ last.res = "failed") =>
              /\ experiment_status = << >>
              /\ active_experiments = << >>)
    /\ [][StopAfterRestart]_vars

\* C25 witness: right after a restart the job that was completed with a best
\* reward has progress with current_iteration 0, and the job that was running
\* when the process ended is running in the registry with no active task.
C25_Witness ==
    /\ last = [op |-> "restart", id |-> 0, res |-> "ok"]
    /\ DOMAIN experiment_status = {1, 2}
    /\ experiment_status[1].status = "completed"
    /\ experiment_status[1].progress # None
    /\ experiment_status[1].progress[1].current_iteration = Some(0)
    /\ experiment_status[2].status = "running"
    /\ experiment_status[2].progress = None
    /\ active_experiments = << >>

\* get(id) returns nothing and no page of list holds id
Absent(id) ==
    /\ get_experiment(experiment_status, id) = None
    /\ \A l \in Limits, o \in Offsets :
          LET page == list_experiments(experiment_status, l, o, None, None)
          IN  \A i \in 1..Len(page) : page[i].id # id

\* C29: once delete(id) has returned true, get(id) returns nothing and list
\* does not contain id in any later state, a restart of the process included.
\* Ids are never reused and the first load takes every record, so a job id
\* that was handed out and that get and list do not show is one that was
\* removed; no step, a restart included, brings it back.
C29_DeletionDurable ==
    [][\A id \in 1..(StoredJobs + MaxJobs) :
         (id <= nextid /\ Absent(id)) => Absent(id)']_vars

\* the registry entry (status, progress, timestamps, notes) and the
\* active-task entry of job id
JobView(id) ==
    <<IF id \in DOMAIN experiment_status THEN Some(experiment_status[id]) ELSE None,
      IF id \in DOMAIN active_experiments THEN Some(active_experiments[id]) ELSE None>>

\* this step is start, stop, delete or update of job a (or the resumption of
\* its stop or delete), or a step of a task, reader or child of job a
StepOf(a) ==
    \/ last'.op \in {"start", "stop", "delete", "update"} /\ last'.id = a
    \/ /\ last' = NoCall
       /\ Len(tasks') = Len(tasks)
       /\ \E t \in 1..Len(tasks) : tasks[t].job = a /\ tasks'[t] # tasks[t]

\* the callback at the head of the loop's ready queue can run
HeadRuns ==
    ready # << >> =>
        LET h == Head(ready)
        IN  CASE h[1] = "task"   -> ENABLED TaskStart(h[2])
              [] h[1] = "cancel" -> ENABLED CancelStep(h[2])
              [] h[1] = "call"   -> ENABLED Wake(h[2])
              [] OTHER           -> FALSE

\* every operation of the facade can be called on job a, whatever the state
\* of the registry (the calls and tasks that the bounds leave room for)
Callable(a) ==
    /\ Len(tasks) < TaskBound => ENABLED Start(a)
    /\ Len(calls) < CallBound => ENABLED Stop(a) /\ ENABLED Delete(a)
    /\ \A n \in Notes : ENABLED Update(a, Some(n), None)

\* C26: a step of job A (start, stop, delete, update, a step of its task or
\* readers) leaves the registry entry, progress, timestamps and active-task
\* entry of every other job B unchanged; and no operation on A waits for B:
\* the facade can always be called on A and the loop always runs the callback
\* at the head of its queue.
C26_JobsIndependent ==
    /\ [][\A a \in 1..PairJobs, b \in 1..PairJobs :
            (StepOf(a) /\ a # b) => JobView(b)' = JobView(b)]_vars
    /\ [](HeadRuns)
    /\ [](\A a \in 1..PairJobs : Callable(a))

\* C26 witness: both jobs are running, each with its own task and live
\* child; job 1 has parsed a reward and was updated, job 2 has neither.
C26_Witness ==
    /\ DOMAIN experiment_status = {1, 2}
    /\ DOMAIN active_experiments = {1, 2}
    /\ active_experiments[1] # active_experiments[2]
    /\ \A id \in {1, 2} :
          /\ experiment_status[id].status = "running"
          /\ tasks[active_experiments[id]].child = "alive"
    /\ experiment_status[1].notes = Some("n")
    /\ ProgressOf(experiment_status, 1).best_reward = Some(42)
    /\ experiment_status[2].notes = None
    /\ experiment_status[2].progress = None

\* C27: while a supervised task has begun to run and has not ended, the
\* active-task map maps its job to this very task: neither a resuming stop
\* call nor the cleanup of an earlier task has removed the entry of a newer
\* task.
C27_EntryOfLiveTask ==
    \A t \in 1..Len(tasks) :
        tasks[t].pc \notin {"new", "done"} => Associated(t)

\* C28: under fair scheduling every job whose status is running eventually
\* has a terminal status (or is deleted): no job stays running forever.
C28_RunningTerminates ==
    \A id \in 1..MaxJobs :
        (id \in DOMAIN experiment_status /\ experiment_status[id].status = "running")
            ~> (\/ id \notin DOMAIN experiment_status
                \/ experiment_status[id].status \in Terminal)

====
